---- MODULE Spec2Model ----
(***************************************************************************)
(* Split gates and spread gadgets of plonky2-sha256 (src/gates.rs,         *)
(* src/gadgets.rs): circuit construction, witness generation and the       *)
(* constraint check.                                                       *)
(*                                                                         *)
(* A field element / u64 is kept as four 16-bit limbs, least significant   *)
(* first, so that 64-bit values and the Goldilocks modulus                 *)
(* p = 2^64 - 2^32 + 1 are computed exactly.                               *)
(***************************************************************************)
EXTENDS Integers, Sequences, FiniteSets, TLC

(***************************************************************************)
(* Bounds of the model                                                     *)
(***************************************************************************)
\* number of pseudo-random 32-bit words added to the fixed operand vectors
MaxSample == 2
\* number of add_u32_split / SplitNibble calls one circuit may hold
MaxSplitCalls == 2
\* number of times the runner may pick a ready generator other than the first
\* one in registration order
MaxOutOfOrder == 1

(***************************************************************************)
(* u64 and field arithmetic                                                *)
(***************************************************************************)
LimbBits == 16
LimbBase == 65536
WordBits == 32

\* TLC evaluates the arguments of an operator only when they are used; After
\* evaluates v first, so that a long chain of builder calls is evaluated in
\* program order.  It does not change the value of e.
After(v, e) == IF v = v THEN e ELSE e

\* F applied to the value of v
Let(v, F(_)) == CHOOSE y \in {F(x) : x \in {v}} : TRUE
Pow2(n) == 2 ^ n
LimbAt(x, j) == IF j >= 1 /\ j <= Len(x) THEN x[j] ELSE 0

Zero == <<0, 0, 0, 0>>
One == <<1, 0, 0, 0>>
\* F::from_canonical_u64 of a number below 2^31
FromNat(n) == <<n % LimbBase, n \div LimbBase, 0, 0>>
\* the 32-bit word hi * 2^16 + lo
U32(hi, lo) == <<lo, hi, 0, 0>>
\* the Goldilocks order 0xFFFFFFFF00000001
GoldP == <<1, 0, 65535, 65535>>

\* a + b and a - b on numbers of four or five limbs: the limbs of the result,
\* then the carry (the borrow) out of the last limb
AddL(a, b) ==
    LET s1 == a[1] + b[1]
        s2 == a[2] + b[2] + (s1 \div LimbBase)
        s3 == a[3] + b[3] + (s2 \div LimbBase)
        s4 == a[4] + b[4] + (s3 \div LimbBase)
        s5 == LimbAt(a, 5) + LimbAt(b, 5) + (s4 \div LimbBase)
    IN IF Len(a) = 4
       THEN <<s1 % LimbBase, s2 % LimbBase, s3 % LimbBase, s4 % LimbBase, s4 \div LimbBase>>
       ELSE <<s1 % LimbBase, s2 % LimbBase, s3 % LimbBase, s4 % LimbBase, s5 % LimbBase,
              s5 \div LimbBase>>

Borrow(d) == IF d < 0 THEN 1 ELSE 0
SubL(a, b) ==
    LET d1 == a[1] - b[1]
        d2 == a[2] - b[2] - Borrow(d1)
        d3 == a[3] - b[3] - Borrow(d2)
        d4 == a[4] - b[4] - Borrow(d3)
        d5 == LimbAt(a, 5) - LimbAt(b, 5) - Borrow(d4)
    IN IF Len(a) = 4
       THEN <<d1 % LimbBase, d2 % LimbBase, d3 % LimbBase, d4 % LimbBase, Borrow(d4)>>
       ELSE <<d1 % LimbBase, d2 % LimbBase, d3 % LimbBase, d4 % LimbBase, d5 % LimbBase,
              Borrow(d5)>>

\* a < b, both of the same number of limbs
Less(a, b) == SubL(a, b)[Len(a) + 1] = 1

\* the u64 operators of run_once: >>, <<, &, wrapping + and -
ShlLimb(x, k, j) ==
    LET q == k \div LimbBits
        r == k % LimbBits
    IN ((LimbAt(x, j - q) % Pow2(LimbBits - r)) * Pow2(r))
       + (LimbAt(x, j - q - 1) \div Pow2(LimbBits - r))
ShrLimb(x, k, j) ==
    LET q == k \div LimbBits
        r == k % LimbBits
    IN (LimbAt(x, j + q) \div Pow2(r))
       + ((LimbAt(x, j + q + 1) % Pow2(r)) * Pow2(LimbBits - r))
Shr(x, k) == <<ShrLimb(x, k, 1), ShrLimb(x, k, 2), ShrLimb(x, k, 3), ShrLimb(x, k, 4)>>
Shl(x, k) == <<ShlLimb(x, k, 1), ShlLimb(x, k, 2), ShlLimb(x, k, 3), ShlLimb(x, k, 4)>>
ShlWide(x, k) ==
    <<ShlLimb(x, k, 1), ShlLimb(x, k, 2), ShlLimb(x, k, 3), ShlLimb(x, k, 4),
      ShlLimb(x, k, 5), ShlLimb(x, k, 6)>>

\* the bitwise and of two limbs, over the bits i..j
RECURSIVE AndLimb(_, _, _, _)
AndLimb(a, b, i, j) ==
    IF i = j THEN (((a \div Pow2(i)) % 2) * ((b \div Pow2(i)) % 2)) * Pow2(i)
    ELSE AndLimb(a, b, i, (i + j) \div 2) + AndLimb(a, b, ((i + j) \div 2) + 1, j)
And(x, y) ==
    <<AndLimb(x[1], y[1], 0, LimbBits - 1), AndLimb(x[2], y[2], 0, LimbBits - 1),
      AndLimb(x[3], y[3], 0, LimbBits - 1), AndLimb(x[4], y[4], 0, LimbBits - 1)>>

WrapAdd(a, b) == SubSeq(AddL(a, b), 1, 4)
WrapSub(a, b) == SubSeq(SubL(a, b), 1, 4)

\* bit n of the u64 x
BitOf(x, n) == (x[(n \div LimbBits) + 1] \div Pow2(n % LimbBits)) % 2

\* a five-limb number below 2^65 reduced to its canonical residue mod p
GoldP5 == <<1, 0, 65535, 65535, 0>>
ReduceOnce(u) == Let(SubL(u, GoldP5), LAMBDA d : IF d[6] = 1 THEN u ELSE SubSeq(d, 1, 5))
Canon5(u) == Let(ReduceOnce(u), LAMBDA v : SubSeq(ReduceOnce(v), 1, 4))

\* field addition, subtraction and multiplication by 2^k (k < 32)
FAdd(a, b) == Let(AddL(a, b), Canon5)
FSub(a, b) ==
    Let(SubL(a, b), LAMBDA d : IF d[5] = 1 THEN WrapAdd(SubSeq(d, 1, 4), GoldP)
                                ELSE SubSeq(d, 1, 4))
\* a * 2^k for a below 2^64 is lo + hi * 2^64 with hi below 2^32, and
\* 2^64 = 2^32 - 1 (mod p)
MulPow2Fold(w) ==
    Let(AddL(<<w[1], w[2], w[3], w[4]>>, <<0, 0, w[5], w[6]>>),
        LAMBDA t : Let(SubSeq(SubL(t, <<w[5], w[6], 0, 0, 0>>), 1, 5), Canon5))
FMulPow2(a, k) == Let(ShlWide(a, k), MulPow2Fold)

\* field multiplication a * b: the sum of a * 2^i over the set bits i of b,
\* taken over the operand with the fewer set bits
FMulBit(a, i) ==
    IF i < WordBits THEN FMulPow2(a, i)
    ELSE Let(FMulPow2(a, WordBits - 1), LAMBDA h : FMulPow2(h, i - (WordBits - 1)))
SetBits(b) == {i \in 0..(4 * LimbBits - 1) : BitOf(b, i) = 1}
RECURSIVE FMulBits(_, _, _, _)
FMulBits(a, S, i, j) ==
    LET m == (i + j) \div 2
        L == {n \in S : n <= m}
        H == S \ L
    IN IF S = {} THEN Zero
       ELSE IF i = j THEN FMulBit(a, i)
       ELSE IF H = {} THEN FMulBits(a, L, i, m)
       ELSE IF L = {} THEN FMulBits(a, H, m + 1, j)
       ELSE Let(FMulBits(a, L, i, m),
                LAMBDA lo : Let(FMulBits(a, H, m + 1, j), LAMBDA hi : FAdd(lo, hi)))
FMul(a, b) ==
    LET Sa == SetBits(a)
        Sb == SetBits(b)
    IN IF Cardinality(Sb) = 1 THEN FMulBit(a, CHOOSE n \in Sb : TRUE)
       ELSE IF Cardinality(Sb) <= Cardinality(Sa)
       THEN FMulBits(a, Sb, 0, 4 * LimbBits - 1)
       ELSE FMulBits(b, Sa, 0, 4 * LimbBits - 1)

IsU32(x) == x[3] = 0 /\ x[4] = 0
IsU16(x) == x[2] = 0 /\ x[3] = 0 /\ x[4] = 0

(***************************************************************************)
(* Targets and the circuit builder                                         *)
(***************************************************************************)
\* Target::wire(row, column) and a virtual target
Wire(row, col) == [k |-> "w", r |-> row, c |-> col]
Virt(n) == [k |-> "v", r |-> n, c |-> 0]

EmptyBuilder ==
    [gates |-> <<>>, gens |-> <<>>, copies |-> <<>>, ranges |-> <<>>, lookups |-> <<>>, nvirt |-> 0]

Gen(kind, row, K, ins, outs, val) ==
    [kind |-> kind, row |-> row, K |-> K, ins |-> ins, outs |-> outs, val |-> val]

add_virtual_target(b) == [b |-> [b EXCEPT !.nvirt = @ + 1], out |-> Virt(b.nvirt)]

\* a host operation: one fresh target filled by the host's generator
HostOp(b, kind, ins, val) ==
    [b |-> [b EXCEPT !.nvirt = @ + 1,
                     !.gens = Append(@, Gen(kind, 0, <<>>, ins, <<Virt(b.nvirt)>>, val))],
     out |-> Virt(b.nvirt)]
constant(b, c) == HostOp(b, "Const", <<>>, c)
add(b, x, y) == HostOp(b, "Add", <<x, y>>, Zero)
sub(b, x, y) == HostOp(b, "Sub", <<x, y>>, Zero)
add_many(b, ts) == HostOp(b, "AddMany", ts, Zero)
mul_add(b, x, y, z) == HostOp(b, "MulAdd", <<x, y, z>>, Zero)
connect(b, x, y) == [b EXCEPT !.copies = Append(@, <<x, y>>)]
range_check(b, x, n) == [b EXCEPT !.ranges = Append(@, <<x, n>>)]
add_lookup_from_index(b, x, idx) ==
    LET h == HostOp(b, "Lookup", <<x>>, Zero)
    IN [b |-> [h.b EXCEPT !.lookups = Append(@, <<x, h.out, idx>>)], out |-> h.out]

\* Gate::num_wires
num_wires(gate) ==
    CASE gate = "Split4Parts" -> 5
      [] gate = "SplitNibble" -> 9
      [] gate = "SplitU16" -> 3
      [] gate = "SplitU8Spread" -> 5

\* a variant of add_gate whose generator fills the columns from 0 on
add_gate_fills_input(b, gate, K) ==
    LET row == Len(b.gates)
    IN [b |-> [b EXCEPT !.gates = Append(@, [gate |-> gate, K |-> K]),
                        !.gens = Append(@, Gen(gate, row, K, <<Wire(row, 0)>>,
                                      [c \in 1..(num_wires(gate) - 1) |-> Wire(row, c - 1)], Zero))],
        row |-> row]

\* add_gate: the gate takes the next row and registers its generator
\* (Gate::generators), which depends on column 0 and fills the other columns
add_gate(b, gate, K) ==
    LET row == Len(b.gates)
    IN [b |-> [b EXCEPT !.gates = Append(@, [gate |-> gate, K |-> K]),
                        !.gens = Append(@, Gen(gate, row, K, <<Wire(row, 0)>>,
                                      [c \in 1..(num_wires(gate) - 1) |-> Wire(row, c)], Zero))],
        row |-> row]

(***************************************************************************)
(* gadgets.rs: the U32SplitOps methods                                     *)
(***************************************************************************)
\* usize a - b; a negative result stands for the wrapped value 2^64 + (a - b)
\* that a build without overflow checks computes
UsizeSub(a, b) == a - b

\* a variant of add_u32_split that leaves out range_check(x0, K1)
add_u32_split_unchecked_x0(b, K1, K2, K3, input, overflow_checks) ==
    LET g == add_gate(b, "Split4Parts", <<K1, K2, K3>>)
        row == g.row
        b1 == connect(g.b, input, Wire(row, 0))
        b3 == range_check(b1, Wire(row, 2), UsizeSub(K2, K1))
        b4 == range_check(b3, Wire(row, 3), UsizeSub(K3, K2))
        b5 == range_check(b4, Wire(row, 4), UsizeSub(WordBits, K3))
    IN [b |-> b5, out |-> <<Wire(row, 1), Wire(row, 2), Wire(row, 3), Wire(row, 4)>>,
        panic |-> FALSE]

\* add_u32_split::<K1, K2, K3>.  With overflow checks the first subtraction
\* that underflows panics, and the builder keeps what was added before it.
add_u32_split(b, K1, K2, K3, input, overflow_checks) ==
    LET g == add_gate(b, "Split4Parts", <<K1, K2, K3>>)
        row == g.row
        b1 == connect(g.b, input, Wire(row, 0))
        x0 == Wire(row, 1)
        x1 == Wire(row, 2)
        x2 == Wire(row, 3)
        x3 == Wire(row, 4)
        b2 == range_check(b1, x0, K1)
        b3 == range_check(b2, x1, UsizeSub(K2, K1))
        b4 == range_check(b3, x2, UsizeSub(K3, K2))
        b5 == range_check(b4, x3, UsizeSub(WordBits, K3))
    IN CASE overflow_checks /\ K2 < K1 -> [b |-> b2, out |-> <<>>, panic |-> TRUE]
         [] overflow_checks /\ K3 < K2 -> [b |-> b3, out |-> <<>>, panic |-> TRUE]
         [] overflow_checks /\ WordBits < K3 -> [b |-> b4, out |-> <<>>, panic |-> TRUE]
         [] OTHER -> [b |-> b5, out |-> <<x0, x1, x2, x3>>, panic |-> FALSE]

\* add_u32_split_u16: no range check on lo and hi
add_u32_split_u16(b, input) ==
    LET g == add_gate(b, "SplitU16", <<>>)
        row == g.row
        b1 == connect(g.b, input, Wire(row, 0))
        lo == Wire(row, 1)
        hi == Wire(row, 2)
    IN [b |-> b1, out |-> <<lo, hi>>]

\* a variant of add_u32_split_u8_spread without the two lookups
add_u32_split_u8_spread_no_lookup(b, input, table_idx) ==
    LET g == add_gate(b, "SplitU8Spread", <<table_idx>>)
    IN [b |-> connect(g.b, input, Wire(g.row, 0)), out |-> <<Wire(g.row, 1), Wire(g.row, 2)>>]

\* a variant of add_u32_split_u8_spread that connects the lookup of even_u8 to
\* odd and the lookup of odd_u8 to even
add_u32_split_u8_spread_crossed(b, input, table_idx) ==
    LET g == add_gate(b, "SplitU8Spread", <<table_idx>>)
        row == g.row
        b1 == connect(g.b, input, Wire(row, 0))
        even_lookup == add_lookup_from_index(b1, Wire(row, 3), table_idx)
        odd_lookup == add_lookup_from_index(even_lookup.b, Wire(row, 4), table_idx)
        b2 == connect(odd_lookup.b, even_lookup.out, Wire(row, 2))
        b3 == connect(b2, odd_lookup.out, Wire(row, 1))
    IN [b |-> b3, out |-> <<Wire(row, 1), Wire(row, 2)>>]

add_u32_split_u8_spread(b, input, table_idx) ==
    LET g == add_gate(b, "SplitU8Spread", <<table_idx>>)
        row == g.row
        b1 == connect(g.b, input, Wire(row, 0))
        even == Wire(row, 1)
        odd == Wire(row, 2)
        even_u8 == Wire(row, 3)
        odd_u8 == Wire(row, 4)
        even_lookup == add_lookup_from_index(b1, even_u8, table_idx)
        odd_lookup == add_lookup_from_index(even_lookup.b, odd_u8, table_idx)
        b2 == connect(odd_lookup.b, even_lookup.out, even)
        b3 == connect(b2, odd_lookup.out, odd)
    IN [b |-> b3, out |-> <<even, odd>>]

\* a SplitNibbleGate row fed by input (the gate has no gadget of its own)
add_split_nibble(b, input) ==
    LET g == add_gate(b, "SplitNibble", <<>>)
    IN [b |-> connect(g.b, input, Wire(g.row, 0)),
        out |-> [c \in 1..8 |-> Wire(g.row, c)]]

(***************************************************************************)
(* gadgets.rs: XOR3, MAJ3, CH3                                             *)
(***************************************************************************)
\* a variant of xor3_u16_by_spread that sums the odd bit positions of the two
\* re-spread sums
xor3_u16_odd_bits(b, a, bb, c, table_idx) ==
    LET sa == add_u32_split_u8_spread(b, a, table_idx) IN After(sa,
    LET sb == add_u32_split_u8_spread(sa.b, bb, table_idx) IN After(sb,
    LET sc == add_u32_split_u8_spread(sb.b, c, table_idx) IN After(sc,
    LET even == add_many(sc.b, <<sa.out[1], sb.out[1], sc.out[1]>>) IN After(even,
    LET odd == add_many(even.b, <<sa.out[2], sb.out[2], sc.out[2]>>) IN After(odd,
    LET se == add_u32_split_u8_spread(odd.b, even.out, table_idx) IN After(se,
    LET so == add_u32_split_u8_spread(se.b, odd.out, table_idx) IN After(so,
    add_many(so.b, <<so.out[2], so.out[2], se.out[2]>>))))))))

xor3_u16_by_spread(b, a, bb, c, table_idx) ==
    LET sa == add_u32_split_u8_spread(b, a, table_idx) IN After(sa,
    LET sb == add_u32_split_u8_spread(sa.b, bb, table_idx) IN After(sb,
    LET sc == add_u32_split_u8_spread(sb.b, c, table_idx) IN After(sc,
    LET even == add_many(sc.b, <<sa.out[1], sb.out[1], sc.out[1]>>) IN After(even,
    LET odd == add_many(even.b, <<sa.out[2], sb.out[2], sc.out[2]>>) IN After(odd,
    LET se == add_u32_split_u8_spread(odd.b, even.out, table_idx) IN After(se,
    LET so == add_u32_split_u8_spread(se.b, odd.out, table_idx) IN After(so,
    LET even_even == se.out[1]
        odd_even == so.out[1]
    IN add_many(so.b, <<odd_even, odd_even, even_even>>))))))))

xor3_u32_by_spread(b, a, bb, c, table_idx) ==
    LET sa == add_u32_split_u16(b, a) IN After(sa,
    LET sb == add_u32_split_u16(sa.b, bb) IN After(sb,
    LET sc == add_u32_split_u16(sb.b, c) IN After(sc,
    LET res_lo == xor3_u16_by_spread(sc.b, sa.out[1], sb.out[1], sc.out[1], table_idx) IN After(res_lo,
    LET res_hi == xor3_u16_by_spread(res_lo.b, sa.out[2], sb.out[2], sc.out[2], table_idx) IN After(res_hi,
    LET po16 == constant(res_hi.b, Shl(One, 16)) IN After(po16,
    mul_add(po16.b, res_hi.out, po16.out, res_lo.out)))))))

\* a variant of maj_u16_by_spread that reads the even bit positions
maj_u16_even_bits(b, a, bb, c, table_idx) == xor3_u16_by_spread(b, a, bb, c, table_idx)

maj_u16_by_spread(b, a, bb, c, table_idx) ==
    LET sa == add_u32_split_u8_spread(b, a, table_idx) IN After(sa,
    LET sb == add_u32_split_u8_spread(sa.b, bb, table_idx) IN After(sb,
    LET sc == add_u32_split_u8_spread(sb.b, c, table_idx) IN After(sc,
    LET even == add_many(sc.b, <<sa.out[1], sb.out[1], sc.out[1]>>) IN After(even,
    LET odd == add_many(even.b, <<sa.out[2], sb.out[2], sc.out[2]>>) IN After(odd,
    LET se == add_u32_split_u8_spread(odd.b, even.out, table_idx) IN After(se,
    LET so == add_u32_split_u8_spread(se.b, odd.out, table_idx) IN After(so,
    LET even_odd == se.out[2]
        odd_odd == so.out[2]
    IN add_many(so.b, <<odd_odd, odd_odd, even_odd>>))))))))

maj_u32_by_spread(b, a, bb, c, table_idx) ==
    LET sa == add_u32_split_u16(b, a) IN After(sa,
    LET sb == add_u32_split_u16(sa.b, bb) IN After(sb,
    LET sc == add_u32_split_u16(sb.b, c) IN After(sc,
    LET res_lo == maj_u16_by_spread(sc.b, sa.out[1], sb.out[1], sc.out[1], table_idx) IN After(res_lo,
    LET res_hi == maj_u16_by_spread(res_lo.b, sa.out[2], sb.out[2], sc.out[2], table_idx) IN After(res_hi,
    LET po16 == constant(res_hi.b, Shl(One, 16)) IN After(po16,
    mul_add(po16.b, res_hi.out, po16.out, res_lo.out)))))))

ch_u8_spread(b, a, bb, c, table_idx) ==
    LET spread_full == constant(b, FromNat(21845)) IN After(spread_full,     \* 0x5555
    LET not_a == sub(spread_full.b, spread_full.out, a) IN After(not_a,
    LET a_plus_b == add(not_a.b, a, bb) IN After(a_plus_b,
    LET not_a_plus_c == add(a_plus_b.b, not_a.out, c) IN After(not_a_plus_c,
    LET s1 == add_u32_split_u8_spread(not_a_plus_c.b, a_plus_b.out, table_idx) IN After(s1,
    LET s2 == add_u32_split_u8_spread(s1.b, not_a_plus_c.out, table_idx) IN After(s2,
    LET a_plus_b_odd == s1.out[2]
        not_a_plus_c_odd == s2.out[2]
        odd_sum == add(s2.b, a_plus_b_odd, not_a_plus_c_odd) IN After(odd_sum,
    LET s3 == add_u32_split_u8_spread(odd_sum.b, odd_sum.out, table_idx)
        odd_sum_even == s3.out[1]
    IN [b |-> s3.b, out |-> odd_sum_even])))))))

\* a variant of ch_u16_by_spread that takes the majority of the operands
ch_u16_majority(b, a, bb, c, table_idx) == maj_u16_by_spread(b, a, bb, c, table_idx)

ch_u16_by_spread(b, a, bb, c, table_idx) ==
    LET sa == add_u32_split_u8_spread(b, a, table_idx) IN After(sa,
    LET sb == add_u32_split_u8_spread(sa.b, bb, table_idx) IN After(sb,
    LET sc == add_u32_split_u8_spread(sb.b, c, table_idx) IN After(sc,
    LET res_even == ch_u8_spread(sc.b, sa.out[1], sb.out[1], sc.out[1], table_idx) IN After(res_even,
    LET res_odd == ch_u8_spread(res_even.b, sa.out[2], sb.out[2], sc.out[2], table_idx) IN After(res_odd,
    add_many(res_odd.b, <<res_odd.out, res_odd.out, res_even.out>>))))))

ch_u32_by_spread(b, a, bb, c, table_idx) ==
    LET sa == add_u32_split_u16(b, a) IN After(sa,
    LET sb == add_u32_split_u16(sa.b, bb) IN After(sb,
    LET sc == add_u32_split_u16(sb.b, c) IN After(sc,
    LET res_lo == ch_u16_by_spread(sc.b, sa.out[1], sb.out[1], sc.out[1], table_idx) IN After(res_lo,
    LET res_hi == ch_u16_by_spread(res_lo.b, sa.out[2], sb.out[2], sc.out[2], table_idx) IN After(res_hi,
    LET po16 == constant(res_hi.b, Shl(One, 16)) IN After(po16,
    mul_add(po16.b, res_hi.out, po16.out, res_lo.out)))))))

\* U32SplitCircuitBuilder::add_u32_inputs(3), then one gadget on the operands
TableIdx == 0
Operands3 ==
    LET i0 == add_virtual_target(EmptyBuilder)
        i1 == add_virtual_target(i0.b)
        i2 == add_virtual_target(i1.b)
    IN [b |-> i2.b, out |-> <<i0.out, i1.out, i2.out>>]
Xor3Circuit == xor3_u32_by_spread(Operands3.b, Operands3.out[1], Operands3.out[2], Operands3.out[3], TableIdx)
MajCircuit == maj_u32_by_spread(Operands3.b, Operands3.out[1], Operands3.out[2], Operands3.out[3], TableIdx)
ChCircuit == ch_u32_by_spread(Operands3.b, Operands3.out[1], Operands3.out[2], Operands3.out[3], TableIdx)

\* a circuit of one U8SpreadSplit call, of one split row and of one nibble row
\* on the first operand
SpreadCircuit == add_u32_split_u8_spread(Operands3.b, Operands3.out[1], TableIdx)
SplitCircuit(K) == add_u32_split(Operands3.b, K[1], K[2], K[3], Operands3.out[1], FALSE)
NibbleCircuit == add_split_nibble(Operands3.b, Operands3.out[1])

(***************************************************************************)
(* gates.rs: the witness generators                                        *)
(***************************************************************************)
\* (1u64 << n) - 1; a build without overflow checks takes the shift amount
\* modulo 64
Mask(n) == WrapSub(Shl(One, n % 64), One)

\* a variant of Split4PartsGenerator::run_once that masks x1 with K2 bits
Split4PartsGenerator_wide_x1(K, x_val) ==
    <<And(x_val, Mask(K[1])),
      And(Shr(x_val, K[1]), Mask(K[2])),
      And(Shr(x_val, K[2]), Mask(UsizeSub(K[3], K[2]))),
      And(Shr(x_val, K[3]), Mask(UsizeSub(WordBits, K[3])))>>

\* a variant of SplitNibbleGenerator::run_once that masks x4 with 8 bits
SplitNibbleGenerator_wide_x4(x_val) ==
    <<And(x_val, Mask(4)), And(Shr(x_val, 4), Mask(8)), And(Shr(x_val, 8), Mask(4)),
      And(Shr(x_val, 12), Mask(4)), And(Shr(x_val, 16), Mask(4)), And(Shr(x_val, 20), Mask(4)),
      And(Shr(x_val, 24), Mask(4)), And(Shr(x_val, 28), Mask(4))>>

\* Split4PartsGenerator::run_once: the values set on columns 1..4 from the
\* canonical u64 of column 0
Split4PartsGenerator_run_once(K, x_val) ==
    LET K1 == K[1]
        K2 == K[2]
        K3 == K[3]
        x_u64 == x_val
        x0 == And(x_u64, Mask(K1))
        x1 == And(Shr(x_u64, K1), Mask(UsizeSub(K2, K1)))
        x2 == And(Shr(x_u64, K2), Mask(UsizeSub(K3, K2)))
        x3 == And(Shr(x_u64, K3), Mask(UsizeSub(WordBits, K3)))
    IN <<x0, x1, x2, x3>>

\* SplitNibbleGenerator::run_once: the values set on columns 1..8
SplitNibbleGenerator_run_once(x_val) ==
    LET x_u64 == x_val
        x0 == And(x_u64, Mask(4))
        x4 == And(Shr(x_u64, 4), Mask(4))
        x8 == And(Shr(x_u64, 8), Mask(4))
        x12 == And(Shr(x_u64, 12), Mask(4))
        x16 == And(Shr(x_u64, 16), Mask(4))
        x20 == And(Shr(x_u64, 20), Mask(4))
        x24 == And(Shr(x_u64, 24), Mask(4))
        x28 == And(Shr(x_u64, 28), Mask(4))
    IN <<x0, x4, x8, x12, x16, x20, x24, x28>>

\* U16Split (spec 4.3, 8): lo = x mod 2^16, hi = x div 2^16
SplitU16Generator_run_once(x_val) ==
    <<And(x_val, Mask(LimbBits)), Shr(x_val, LimbBits)>>

\* U8SpreadSplit (spec 4.4): for i in 0..8 bits 2i and 2i+1 of x, accumulated
\* in spread form (even, odd) and in packed form (even_u8, odd_u8)
RECURSIVE SpreadAcc(_, _, _, _, _)
SpreadAcc(x_val, i, j, off, stride) ==
    IF i = j THEN BitOf(x_val, 2 * i + off) * Pow2(stride * i)
    ELSE SpreadAcc(x_val, i, (i + j) \div 2, off, stride)
            + SpreadAcc(x_val, ((i + j) \div 2) + 1, j, off, stride)
SplitU8SpreadGenerator_run_once(x_val) ==
    LET even == SpreadAcc(x_val, 0, 7, 0, 2)
        odd == SpreadAcc(x_val, 0, 7, 1, 2)
        even_u8 == SpreadAcc(x_val, 0, 7, 0, 1)
        odd_u8 == SpreadAcc(x_val, 0, 7, 1, 1)
    IN <<FromNat(even), FromNat(odd), FromNat(even_u8), FromNat(odd_u8)>>

\* the byte spread table (spec 4.4): spread(b) = sum of bit_i(b) * 4^i
RECURSIVE SpreadOf(_, _)
SpreadOf(n, i) ==
    IF i = 8 THEN 0 ELSE ((n \div Pow2(i)) % 2) * Pow2(2 * i) + SpreadOf(n, i + 1)
SpreadTable == [n \in 0..255 |-> SpreadOf(n, 0)]
InTable(v) == IsU16(v) /\ v[1] \in DOMAIN SpreadTable

(***************************************************************************)
(* Witness generation                                                      *)
(***************************************************************************)
EmptyWitness == [vals |-> <<>>, ok |-> TRUE]

\* the targets connected to those of S
RECURSIVE Partition(_, _)
Partition(copies, S) ==
    LET N == S \cup {copies[j][2] : j \in {i \in DOMAIN copies : copies[i][1] \in S}}
               \cup {copies[j][1] : j \in {i \in DOMAIN copies : copies[i][2] \in S}}
    IN IF N = S THEN S ELSE Partition(copies, N)

\* PartitionWitness::set_target: the value goes to the target's partition; a
\* partition that already holds another value is an error
set_target(copies, w, t, v) ==
    LET P == Partition(copies, {t})
    IN IF \E u \in P \cap DOMAIN w.vals : w.vals[u] # v
       THEN [w EXCEPT !.ok = FALSE]
       ELSE [w EXCEPT !.vals = [u \in P |-> v] @@ @]

RECURSIVE SetTargets(_, _, _, _, _)
SetTargets(copies, w, ts, vs, i) ==
    IF i > Len(ts) THEN w
    ELSE Let(set_target(copies, w, ts[i], vs[i]),
             LAMBDA next : SetTargets(copies, next, ts, vs, i + 1))

\* SimpleGenerator::dependencies and the readiness test of the runner
dependencies(g) == g.ins
\* a variant of Ready that also waits for the generator's own outputs
Ready_waits_for_outputs(g, w) ==
    /\ \A j \in 1..Len(dependencies(g)) : dependencies(g)[j] \in DOMAIN w.vals
    /\ \A c \in 1..Len(g.outs) : g.outs[c] \in DOMAIN w.vals
\* a generator is ready when all its dependencies hold a value
Ready(g, w) == \A j \in 1..Len(dependencies(g)) : dependencies(g)[j] \in DOMAIN w.vals

\* the field sum of the values vs[i..j]
RECURSIVE SumRange(_, _, _)
SumRange(vs, i, j) ==
    IF i > j THEN Zero
    ELSE IF i = j THEN vs[i]
    ELSE Let(SumRange(vs, i, (i + j) \div 2),
             LAMBDA lo : Let(SumRange(vs, ((i + j) \div 2) + 1, j), LAMBDA hi : FAdd(lo, hi)))
SumF(vs) == SumRange(vs, 1, Len(vs))

\* run_once of generator g on the witness w: the values for g.outs, or <<>>
\* when the generator fails
run_once(g, w) ==
    LET in == [j \in 1..Len(g.ins) |-> w.vals[g.ins[j]]]
    IN CASE g.kind = "Split4Parts" -> Split4PartsGenerator_run_once(g.K, in[1])
         [] g.kind = "SplitNibble" -> SplitNibbleGenerator_run_once(in[1])
         [] g.kind = "SplitU16" -> SplitU16Generator_run_once(in[1])
         [] g.kind = "SplitU8Spread" -> SplitU8SpreadGenerator_run_once(in[1])
         [] g.kind = "Const" -> <<g.val>>
         [] g.kind = "Add" -> <<FAdd(in[1], in[2])>>
         [] g.kind = "Sub" -> <<FSub(in[1], in[2])>>
         [] g.kind = "AddMany" -> <<SumF(in)>>
         [] g.kind = "MulAdd" -> <<Let(FMul(in[1], in[2]), LAMBDA m : FAdd(m, in[3]))>>
         [] g.kind = "Lookup" ->
              IF InTable(in[1]) THEN <<FromNat(SpreadTable[in[1][1]])>> ELSE <<>>

\* a variant of the generator run whose first output is the number of targets
\* that hold a value when it runs
RunGen_counts_targets(b, w, i) ==
    LET g == b.gens[i]
        vs == run_once(g, w)
    IN IF vs = <<>> THEN [w EXCEPT !.ok = FALSE]
       ELSE SetTargets(b.copies, w, g.outs,
                       [vs EXCEPT ![1] = FromNat(Cardinality(DOMAIN w.vals))], 1)

\* one generator run: its outputs are written, or the run fails
RunGen(b, w, i) ==
    LET g == b.gens[i]
        vs == run_once(g, w)
    IN IF vs = <<>> THEN [w EXCEPT !.ok = FALSE]
       ELSE SetTargets(b.copies, w, g.outs, vs, 1)

\* the partial witness the prover starts from: the values vs on the targets ts
SetInputs(b, ts, vs) == SetTargets(b.copies, EmptyWitness, ts, vs, 1)

(***************************************************************************)
(* The constraint check                                                    *)
(***************************************************************************)
\* the powers of two the gate's constraint multiplies columns 2, 3, .. by
Weights(gate) ==
    CASE gate.gate = "Split4Parts" -> <<gate.K[1], gate.K[2], gate.K[3]>>
      [] gate.gate = "SplitNibble" -> <<4, 8, 12, 16, 20, 24, 28>>
      [] gate.gate = "SplitU16" -> <<LimbBits>>
      [] gate.gate = "SplitU8Spread" -> <<1>>

\* a variant of eval_unfiltered that subtracts only the lowest part: x - x0
eval_unfiltered_lowest_part(gate, row, vals) == FSub(vals[Wire(row, 0)], vals[Wire(row, 1)])

\* eval_unfiltered of the gate on row, on the wire values vals: the value
\* c0 = x - (x0 + x1 * 2^k1 + x2 * 2^k2 + ..)
eval_unfiltered(gate, row, vals) ==
    LET ks == Weights(gate)
        terms == [c \in 1..(Len(ks) + 1) |->
                     IF c = 1 THEN vals[Wire(row, 1)]
                     ELSE FMul(vals[Wire(row, c)], Shl(One, ks[c - 1]))]
    IN Let(SumF(terms), LAMBDA sum : FSub(vals[Wire(row, 0)], sum))

\* range_check(x, n): 0 <= x < 2^n; a wrapped n is at least 2^63
RangeOk(v, n) == n < 0 \/ n >= 64 \/ Shr(v, n) = Zero

\* the witness vals satisfies every constraint of the circuit b
Satisfies(b, vals) ==
    /\ \A r \in 1..Len(b.gates) :
          /\ \A c \in 0..(num_wires(b.gates[r].gate) - 1) : Wire(r - 1, c) \in DOMAIN vals
          /\ eval_unfiltered(b.gates[r], r - 1, vals) = Zero
    /\ \A i \in DOMAIN b.copies :
          LET p == b.copies[i]
          IN p[1] \in DOMAIN vals /\ p[2] \in DOMAIN vals /\ vals[p[1]] = vals[p[2]]
    /\ \A i \in DOMAIN b.ranges :
          LET p == b.ranges[i]
          IN p[1] \in DOMAIN vals /\ RangeOk(vals[p[1]], p[2])
    /\ \A i \in DOMAIN b.lookups :
          LET p == b.lookups[i]
          IN /\ p[1] \in DOMAIN vals /\ p[2] \in DOMAIN vals
             /\ InTable(vals[p[1]]) /\ vals[p[2]] = FromNat(SpreadTable[vals[p[1]][1]])

(***************************************************************************)
(* Inputs of the model                                                     *)
(***************************************************************************)
\* pseudo-random 32-bit words
SampleWord(i) == U32((i * 40503 + 12345) % LimbBase, (i * 25173 + 13849) % LimbBase)
Samples == {SampleWord(i) : i \in 1..MaxSample}

\* the operand triples of the spec's test vectors:
\* (0xFFFFFFFF, 0, 0x0F0F0F0F), (0b101, 0b011, 0b110),
\* (0xFFFFFFFF, 0xAAAAAAAA, 0x55555555)
SpecTriples ==
    {<<U32(65535, 65535), Zero, U32(3855, 3855)>>,
     <<FromNat(5), FromNat(3), FromNat(6)>>,
     <<U32(65535, 65535), U32(43690, 43690), U32(21845, 21845)>>}
\* (0xAAAAAAAA, 0xCCCCCCCC, 0xF0F0F0F0) and (0xF0F0F0F0, 0xAAAAAAAA, 0xCCCCCCCC):
\* the bit positions of such a triple show every combination of three bits
MixTriples ==
    {<<U32(43690, 43690), U32(52428, 52428), U32(61680, 61680)>>,
     <<U32(61680, 61680), U32(43690, 43690), U32(52428, 52428)>>}
SampleTriple(i) == <<SampleWord(i), SampleWord(i + 1), SampleWord(i + 2)>>
\* the operand triples of the gadgets
Triples ==
    SpecTriples \cup MixTriples
        \cup {<<Zero, Zero, Zero>>, <<U32(65535, 65535), U32(65535, 65535), U32(65535, 65535)>>}
        \cup {SampleTriple(i) : i \in 1..MaxSample}
\* the triples used when the order of the generators is explored
FewTriples == {<<U32(65535, 65535), Zero, U32(3855, 3855)>>, SampleTriple(1)}

\* 32-bit inputs of the split gates: 0, 0xFFFFFFFF, 0x80000001, 0x0001FFFF
SplitWords == {Zero, U32(65535, 65535), U32(32768, 1), U32(1, 65535)} \cup Samples
\* canonical field elements outside the 32-bit range: 2^32, 2^32 + 0x12345, p - 1
WideWords == {<<0, 0, 1, 0>>, <<9029, 1, 1, 0>>, <<0, 0, 65535, 65535>>}
\* the operands of split rows when the order of the generators is explored
FirstWords == {U32(65535, 65535), SampleWord(1)} \cup WideWords
SecondWords == {U32(32768, 1), <<0, 0, 1, 0>>}
\* 16-bit inputs of U8SpreadSplit
SpreadInputs == {FromNat(0), FromNat(65535), FromNat(21845), FromNat(43690), FromNat(4660)}
                    \cup {FromNat(w[1]) : w \in Samples} \cup {FromNat(w[2]) : w \in Samples}

\* the widths of the four parts, and the bit each part starts at
Widths(K) == <<K[1], K[2] - K[1], K[3] - K[2], WordBits - K[3]>>
Starts(K) == <<0, K[1], K[2], K[3]>>
\* the widths of the output columns of a split gate
PartWidths(gate) ==
    IF gate.gate = "Split4Parts" THEN Widths(gate.K) ELSE [c \in 1..8 |-> 4]

\* the precondition of GenericSplit
ValidK(K) == 0 < K[1] /\ K[1] < K[2] /\ K[2] < K[3] /\ K[3] < WordBits
\* the boundaries the split gate is checked on: every valid triple of these bit
\* positions, which lie at and next to the ends of the word, of its bytes and
\* of the 16-bit limbs
Boundaries == {1, 2, 7, 8, 9, 15, 16, 17, 24, 30, 31}
AllValidK == {K \in Boundaries \X Boundaries \X Boundaries : ValidK(K)}
\* boundaries the order-exploring specification builds with: valid ones, then
\* K1 = K2, K1 > K2 and K3 > 32
SomeValidK == {<<8, 16, 24>>}
InvalidK == {<<8, 8, 16>>, <<16, 8, 24>>, <<8, 16, 33>>}
Underflows(K) == K[2] < K[1] \/ K[3] < K[2] \/ WordBits < K[3]

\* what a prover that does not run the generator may do to a part of width n:
\* keep it, add 2^n to it, or take 1 from it (in the field)
Shift(v, kind, n) ==
    CASE kind = 0 -> v
      [] kind = 1 -> FAdd(v, Shl(One, n))
      [] kind = 2 -> FSub(v, One)
\* the shifts tried on a row: any on the four parts of GenericSplit, and any on
\* two neighbouring nibbles
ShiftChoices(gates) ==
    IF gates = <<>> THEN {}
    ELSE IF gates[1].gate = "Split4Parts" THEN [1..4 -> 0..2]
    ELSE {[c \in 1..8 |-> IF c = k THEN a ELSE IF c = k + 1 THEN b ELSE 0] :
             k \in 1..7, a \in 0..2, b \in 0..2}
\* the boundaries and inputs of the rows such a prover is tried on
AdvK == {<<8, 16, 24>>, <<1, 2, 31>>, <<7, 9, 30>>}
AdvWords == {Zero, U32(65535, 65535), U32(32768, 1), SampleWord(1)}

(***************************************************************************)
(* State                                                                   *)
(***************************************************************************)
VARIABLES
    status,     \* "building", "panicked", "built", "proving", "failed", "checked"
    gadget,     \* what the circuit holds: "none", "xor3", "maj", "ch", "spread",
                \* "split4", "nibble" (one gadget or row), "split" (split rows)
    circ,       \* the CircuitBuilder
    result,     \* the targets the last gadget call returned
    inputs,     \* the operand values of the prover
    wit,        \* the partial witness
    ran,        \* the generators (indices into circ.gens) that have run
    ref,        \* the witness of the first run, once a second run has started
    skips,      \* the out-of-order picks of the runner so far
    verdict     \* "none", "accepted", "rejected"

vars == <<status, gadget, circ, result, inputs, wit, ran, ref, skips, verdict>>

Init ==
    /\ status = "building"
    /\ gadget = "none"
    /\ circ = Operands3.b
    /\ result = <<>>
    /\ inputs = <<>>
    /\ wit = EmptyWitness
    /\ ran = {}
    /\ ref = EmptyWitness
    /\ skips = 0
    /\ verdict = "none"

(***************************************************************************)
(* Circuit construction                                                    *)
(***************************************************************************)
\* one gadget call on the three operands, then CircuitBuilder::build
BuildGadget(name, c) ==
    /\ status = "building" /\ gadget = "none"
    /\ gadget' = name
    /\ circ' = c.b
    /\ result' = c.out
    /\ status' = "built"
    /\ UNCHANGED <<inputs, wit, ran, ref, skips, verdict>>

Xor3U32BySpread == BuildGadget("xor3", Xor3Circuit)
MajU32BySpread == BuildGadget("maj", MajCircuit)
ChU32BySpread == BuildGadget("ch", ChCircuit)
AddU32SplitU8Spread == BuildGadget("spread", SpreadCircuit)
Split4Parts(K) == BuildGadget("split4", SplitCircuit(K))
SplitNibble == BuildGadget("nibble", NibbleCircuit)

\* the operand the next split call reads
NextOperand == Operands3.out[(Len(circ.gates) % 3) + 1]

\* U32SplitCircuitBuilder::split::<K1, K2, K3> on the next operand, in a build
\* with or without overflow checks
AddU32Split(K, overflow_checks) ==
    /\ status = "building" /\ gadget \in {"none", "split"}
    /\ Len(circ.gates) < MaxSplitCalls
    /\ overflow_checks => Underflows(K)
    /\ LET r == add_u32_split(circ, K[1], K[2], K[3], NextOperand, overflow_checks)
       IN /\ circ' = r.b
          /\ result' = r.out
          /\ status' = IF r.panic THEN "panicked" ELSE "building"
    /\ gadget' = "split"
    /\ UNCHANGED <<inputs, wit, ran, ref, skips, verdict>>

AddSplitNibble ==
    /\ status = "building" /\ gadget \in {"none", "split"}
    /\ Len(circ.gates) < MaxSplitCalls
    /\ LET r == add_split_nibble(circ, NextOperand)
       IN circ' = r.b /\ result' = r.out
    /\ gadget' = "split"
    /\ UNCHANGED <<status, inputs, wit, ran, ref, skips, verdict>>

\* CircuitBuilder::build
Build ==
    /\ status = "building" /\ Len(circ.gates) > 0
    /\ status' = "built"
    /\ UNCHANGED <<gadget, circ, result, inputs, wit, ran, ref, skips, verdict>>

(***************************************************************************)
(* Proving: the operands are set, then the generators run                  *)
(***************************************************************************)
SetOperands(vals) ==
    /\ status = "built"
    /\ inputs' = vals
    /\ wit' = SetInputs(circ, Operands3.out, vals)
    /\ status' = "proving"
    /\ UNCHANGED <<gadget, circ, result, ran, ref, skips, verdict>>

\* the operands the prover may set on the circuit built
OperandChoices ==
    CASE gadget \in {"xor3", "maj", "ch"} -> Triples
      [] gadget = "spread" -> {<<x, Zero, Zero>> : x \in SpreadInputs}
      [] gadget \in {"split4", "nibble"} -> {<<x, Zero, Zero>> : x \in SplitWords}
      [] OTHER -> {}
\* the operands set when the order of the generators is explored
OrderChoices ==
    CASE gadget \in {"xor3", "maj", "ch"} -> FewTriples
      [] gadget = "split" ->
            {<<a, b, Zero>> : a \in FirstWords,
                              b \in IF Len(circ.gates) > 1 THEN SecondWords ELSE {Zero}}
      [] OTHER -> {}

\* the ready generators that have not run
Pending == {i \in DOMAIN circ.gens : i \notin ran /\ Ready(circ.gens[i], wit)}
First(S) == CHOOSE i \in S : \A j \in S : i <= j
\* a first run of the generators is over and a second one has started
SecondRun == ref # EmptyWitness

\* the runner picks a ready generator and runs it once.  The first run takes
\* the generators in the order of registration; the second may pick another
\* ready generator MaxOutOfOrder times.
RunGenerator(i) ==
    /\ status = "proving"
    /\ i \in Pending
    /\ skips' = IF i = First(Pending) THEN skips ELSE skips + 1
    /\ skips' <= (IF SecondRun THEN MaxOutOfOrder ELSE 0)
    /\ wit' = RunGen(circ, wit, i)
    /\ ran' = ran \cup {i}
    /\ status' = IF wit'.ok THEN "proving" ELSE "failed"
    /\ UNCHANGED <<gadget, circ, result, inputs, ref, verdict>>

\* the runner takes any generator of the frontier: the first ready one, or,
\* up to MaxOutOfOrder times in a run, another ready one
RunFrontier(i) ==
    /\ status = "proving"
    /\ i \in Pending
    /\ skips' = IF i = First(Pending) THEN skips ELSE skips + 1
    /\ skips' <= MaxOutOfOrder
    /\ ran' = ran \cup {i}
    /\ wit' = RunGen(circ, wit, i)
    /\ status' = IF wit'.ok THEN "proving" ELSE "failed"
    /\ UNCHANGED <<gadget, circ, result, inputs, ref, verdict>>

\* witness generation is run again on the same circuit and operands
Rerun ==
    /\ status = "proving" /\ ran = DOMAIN circ.gens /\ ~SecondRun
    /\ ref' = wit
    /\ wit' = SetInputs(circ, Operands3.out, inputs)
    /\ ran' = {}
    /\ UNCHANGED <<status, gadget, circ, result, inputs, skips, verdict>>

\* a prover that sets the outputs of row 0 itself: the values of the
\* generator, each shifted as d says
Forge(x, d) ==
    /\ status = "built"
    /\ inputs' = <<x, Zero, Zero>>
    /\ wit' = Let(SetInputs(circ, Operands3.out, <<x, Zero, Zero>>),
                  LAMBDA w : Let(run_once(circ.gens[1], w),
                      LAMBDA vs : SetTargets(circ.copies, w, circ.gens[1].outs,
                                     [c \in 1..Len(vs) |->
                                        Shift(vs[c], d[c], PartWidths(circ.gates[1])[c])], 1)))
    /\ ran' = DOMAIN circ.gens
    /\ status' = "proving"
    /\ UNCHANGED <<gadget, circ, result, ref, skips, verdict>>

\* the values written so far on the outputs of the U16Split rows are below 2^16
U16OutputsNarrow ==
    \A j \in ran :
        circ.gens[j].kind = "SplitU16" =>
            \A c \in 1..2 : IsU16(wit.vals[circ.gens[j].outs[c]])

\* a prover that sets the outputs of one U16Split row itself, moving 2^16
\* between lo and hi so that lo + hi * 2^16 stays x: kind 1 gives
\* (lo + 2^16, hi - 1), kind 2 gives (lo - 2^16, hi + 1), in the field
ForgeU16(i, kind) ==
    /\ status = "proving"
    /\ i \in Pending /\ i = First(Pending)
    /\ circ.gens[i].kind = "SplitU16"
    /\ U16OutputsNarrow
    /\ wit' = Let(run_once(circ.gens[i], wit),
                  LAMBDA vs : SetTargets(circ.copies, wit, circ.gens[i].outs,
                                 IF kind = 1
                                 THEN <<FAdd(vs[1], Shl(One, LimbBits)), FSub(vs[2], One)>>
                                 ELSE <<FSub(vs[1], Shl(One, LimbBits)), FAdd(vs[2], One)>>, 1))
    /\ ran' = ran \cup {i}
    /\ UNCHANGED <<status, gadget, circ, result, inputs, ref, skips, verdict>>

\* the same prover on a U8SpreadSplit row whose input x is not below 2^16:
\* even = x and odd = 0 satisfy x = even + 2 * odd; even_u8 is the low byte
ForgeSpread(i) ==
    /\ status = "proving"
    /\ i \in Pending /\ i = First(Pending)
    /\ circ.gens[i].kind = "SplitU8Spread"
    /\ ~IsU16(wit.vals[circ.gens[i].ins[1]])
    /\ wit' = Let(wit.vals[circ.gens[i].ins[1]],
                  LAMBDA x : SetTargets(circ.copies, wit, circ.gens[i].outs,
                                        <<x, Zero, FromNat(x[1] % 256), Zero>>, 1))
    /\ ran' = ran \cup {i}
    /\ status' = IF wit'.ok THEN "proving" ELSE "failed"
    /\ UNCHANGED <<gadget, circ, result, inputs, ref, skips, verdict>>

\* the constraints are evaluated on the finished witness
CheckConstraints ==
    /\ status = "proving" /\ ran = DOMAIN circ.gens
    /\ verdict' = IF Satisfies(circ, wit.vals) THEN "accepted" ELSE "rejected"
    /\ status' = "checked"
    /\ UNCHANGED <<gadget, circ, result, inputs, wit, ran, ref, skips>>

\* split rows built with any boundaries, gadgets, and two runs of witness
\* generation
Next ==
    \/ Xor3U32BySpread
    \/ MajU32BySpread
    \/ ChU32BySpread
    \/ \E K \in SomeValidK \cup InvalidK, oc \in BOOLEAN : AddU32Split(K, oc)
    \/ AddSplitNibble
    \/ Build
    \/ \E vals \in OrderChoices : SetOperands(vals)
    \/ \E i \in Pending : RunGenerator(i)
    \/ Rerun
    \/ CheckConstraints

Spec == Init /\ [][Next]_vars

(***************************************************************************)
(* The gadgets and the gates as functions of their operands: one gadget or *)
(* one gate row is built, the operands are drawn from the input sets, and  *)
(* the generators run once each in the order of registration               *)
(***************************************************************************)
NextGadget ==
    \/ Xor3U32BySpread
    \/ MajU32BySpread
    \/ ChU32BySpread
    \/ AddU32SplitU8Spread
    \/ \E vals \in OperandChoices : SetOperands(vals)
    \/ \E i \in Pending : RunGenerator(i)
    \/ CheckConstraints

NextGate ==
    \/ \E K \in AllValidK : Split4Parts(K)
    \/ SplitNibble
    \/ \E vals \in OperandChoices : SetOperands(vals)
    \/ \E i \in Pending : RunGenerator(i)
    \/ CheckConstraints

\* one split row, the outputs set by a prover that shifts the parts, and the
\* constraint check
NextAdv ==
    \/ \E K \in AdvK : Split4Parts(K)
    \/ SplitNibble
    \/ \E x \in AdvWords : \E d \in ShiftChoices(circ.gates) : Forge(x, d)
    \/ CheckConstraints

\* a gadget circuit, and a prover that may set the outputs of one U16Split
\* row and of the U8SpreadSplit rows it feeds
NextU16 ==
    \/ Xor3U32BySpread
    \/ MajU32BySpread
    \/ ChU32BySpread
    \/ \E vals \in OrderChoices : SetOperands(vals)
    \/ \E i \in Pending : RunGenerator(i)
    \/ \E i \in Pending : \E kind \in 1..2 : ForgeU16(i, kind)
    \/ \E i \in Pending : ForgeSpread(i)
    \/ CheckConstraints

\* witness generation of the three gadget circuits with a runner that keeps
\* running a ready generator as long as there is one (generate_partial_witness
\* loops until no generator is pending)
NextLive ==
    \/ Xor3U32BySpread
    \/ MajU32BySpread
    \/ ChU32BySpread
    \/ \E vals \in OrderChoices : SetOperands(vals)
    \/ \E i \in Pending : RunFrontier(i)

\* the step of the runner's loop seen on ran alone: one more ready generator
\* has run.  It is enabled exactly when a generator is pending.
RunsOne == status = "proving" /\ \E i \in Pending : ran' = ran \cup {i}
SpecLive == Init /\ [][NextLive]_vars /\ WF_ran(RunsOne)
SpecGadget == Init /\ [][NextGadget]_vars
SpecU16 == Init /\ [][NextU16]_vars
SpecAdv == Init /\ [][NextAdv]_vars
SpecGate == Init /\ [][NextGate]_vars

(***************************************************************************)
(* Properties of the gadgets                                               *)
(***************************************************************************)
\* the three-operand bit functions, and the word they give bit by bit
BitFn(name, x, y, z) ==
    CASE name = "xor3" -> (x + y + z) % 2
      [] name = "maj" -> (x + y + z) \div 2
      [] name = "ch" -> x * y + (1 - x) * z
RECURSIVE Bitwise3(_, _, _, _, _, _)
Bitwise3(name, x, y, z, i, j) ==
    IF i = j THEN BitFn(name, BitOf(x, i), BitOf(y, i), BitOf(z, i)) * Pow2(i % LimbBits)
    ELSE Bitwise3(name, x, y, z, i, (i + j) \div 2)
            + Bitwise3(name, x, y, z, ((i + j) \div 2) + 1, j)
Word3(name, x, y, z) ==
    <<Bitwise3(name, x, y, z, 0, LimbBits - 1),
      Bitwise3(name, x, y, z, LimbBits, WordBits - 1), 0, 0>>

\* every generator of the circuit has run
Generated == status \in {"proving", "checked"} /\ ran = DOMAIN circ.gens
\* the circuit of the gadget name gives, on every operand triple, the word
\* Word3(name, ..) on its result target, and no generator fails
Computes(name) ==
    gadget = name =>
        /\ status # "failed"
        /\ Generated =>
              /\ wit.ok
              /\ result \in DOMAIN wit.vals
              /\ wit.vals[result] = Word3(name, inputs[1], inputs[2], inputs[3])
\* the gadget name was run on the operands ops, gave the word r, and the
\* witness satisfies the circuit
Computed(name, ops, r) ==
    /\ gadget = name /\ status = "checked" /\ verdict = "accepted"
    /\ inputs = ops
    /\ wit.vals[result] = r

\* C1: the result of xor3_u32_by_spread is the bitwise xor of the three
\* 32-bit operands; XOR3(0xFFFFFFFF, 0, 0x0F0F0F0F) = 0xF0F0F0F0
C1_Xor3IsBitwiseXor ==
    /\ Computes("xor3")
    /\ (gadget = "xor3" /\ Generated /\ inputs = <<U32(65535, 65535), Zero, U32(3855, 3855)>>)
          => wit.vals[result] = U32(61680, 61680)
C1_Witness == Computed("xor3", <<U32(65535, 65535), Zero, U32(3855, 3855)>>, U32(61680, 61680))

\* C2: the result of maj_u32_by_spread is the bitwise majority of the three
\* 32-bit operands; MAJ3(0b101, 0b011, 0b110) has the low three bits 0b111
C2_MajIsBitwiseMajority ==
    /\ Computes("maj")
    /\ (gadget = "maj" /\ Generated /\ inputs = <<FromNat(5), FromNat(3), FromNat(6)>>)
          => wit.vals[result][1] % 8 = 7
C2_Witness == Computed("maj", <<FromNat(5), FromNat(3), FromNat(6)>>, FromNat(7))

\* C3: the result of ch_u32_by_spread is the bitwise choice (a and b) or
\* (not a and c); CH3(0xFFFFFFFF, 0xAAAAAAAA, 0x55555555) = 0xAAAAAAAA
C3_ChIsBitwiseChoice ==
    /\ Computes("ch")
    /\ (gadget = "ch" /\ Generated
            /\ inputs = <<U32(65535, 65535), U32(43690, 43690), U32(21845, 21845)>>)
          => wit.vals[result] = U32(43690, 43690)
C3_Witness ==
    Computed("ch", <<U32(65535, 65535), U32(43690, 43690), U32(21845, 21845)>>,
             U32(43690, 43690))

\* the table maps each byte to the number that holds bit i of the byte at bit
\* 2i and zeros at the odd bits
TableSpreadsBits ==
    /\ DOMAIN SpreadTable = 0..255
    /\ \A n \in DOMAIN SpreadTable :
          /\ SpreadTable[n] < LimbBase
          /\ \A i \in 0..7 : (SpreadTable[n] \div Pow2(2 * i)) % 4 = (n \div Pow2(i)) % 2
\* the values of row 0 of a U8SpreadSplit circuit: the table takes even_u8 to
\* even and odd_u8 to odd, and x = even + 2 * odd
SpreadRowHolds(vals) ==
    LET x == vals[Wire(0, 0)]
        even == vals[Wire(0, 1)]
        odd == vals[Wire(0, 2)]
        even_u8 == vals[Wire(0, 3)]
        odd_u8 == vals[Wire(0, 4)]
    IN /\ InTable(even_u8) /\ FromNat(SpreadTable[even_u8[1]]) = even
       /\ InTable(odd_u8) /\ FromNat(SpreadTable[odd_u8[1]]) = odd
       /\ x = FAdd(even, FMul(odd, FromNat(2)))
       /\ x = inputs[1]
\* both connect() constraints of the gadget hold: each lookup output equals
\* the wire it is connected to
ConnectsHold(vals) ==
    \A i \in DOMAIN circ.copies :
        /\ circ.copies[i][1] \in DOMAIN vals /\ circ.copies[i][2] \in DOMAIN vals
        /\ vals[circ.copies[i][1]] = vals[circ.copies[i][2]]

\* C4: the spread table maps b to the sum of bit_i(b) * 4^i; on the honest
\* witness of add_u32_split_u8_spread the table takes even_u8 to even and
\* odd_u8 to odd, x = even + 2 * odd, and both connect() constraints hold
C4_SpreadSplitRoundTrip ==
    /\ TableSpreadsBits
    /\ gadget = "spread" =>
          /\ status # "failed"
          /\ Generated =>
                wit.ok /\ SpreadRowHolds(wit.vals) /\ ConnectsHold(wit.vals)
                   /\ Len(circ.copies) = 3
          /\ status = "checked" => verdict = "accepted"
C4_Witness ==
    /\ gadget = "spread" /\ status = "checked" /\ verdict = "accepted"
    /\ inputs[1] = FromNat(4660)
    /\ wit.vals[result[1]] # wit.vals[result[2]]
    /\ SpreadRowHolds(wit.vals)

(***************************************************************************)
(* Properties of the gates                                                 *)
(***************************************************************************)
\* the part in column c of row 0 is below 2^width
PartInRange(vals, K, c) == Less(vals[Wire(0, c)], Shl(One, Widths(K)[c]))
\* the part in column c of row 0 holds the bits of x from Starts(K)[c] on
PartIsSlice(vals, K, c) ==
    \A j \in 0..(4 * LimbBits - 1) :
        BitOf(vals[Wire(0, c)], j)
            = IF j < Widths(K)[c] THEN BitOf(vals[Wire(0, 0)], Starts(K)[c] + j) ELSE 0

\* C5: for every x below 2^32 and 0 < K1 < K2 < K3 < 32 the values
\* Split4PartsGenerator::run_once writes make eval_unfiltered zero and lie
\* in [0, 2^K1), [0, 2^(K2-K1)), [0, 2^(K3-K2)), [0, 2^(32-K3))
C5_Split4PartsHonestWitness ==
    gadget = "split4" =>
        /\ ValidK(circ.gates[1].K)
        /\ status # "failed"
        /\ Generated =>
              /\ wit.ok
              /\ wit.vals[Wire(0, 0)] = inputs[1] /\ IsU32(inputs[1])
              /\ eval_unfiltered(circ.gates[1], 0, wit.vals) = Zero
              /\ \A c \in 1..4 : PartInRange(wit.vals, circ.gates[1].K, c)
        /\ status = "checked" => verdict = "accepted"
C5_Witness ==
    /\ gadget = "split4" /\ status = "checked" /\ verdict = "accepted"
    /\ circ.gates[1].K = <<7, 9, 30>>
    /\ inputs[1] = U32(65535, 65535)
    /\ wit.vals[Wire(0, 2)] = FromNat(3)

\* the nibbles of row 0: column i + 1 is below 16 and holds bits 4i..4i+3
NibblesAreSlices(vals) ==
    \A i \in 0..7 :
        /\ Less(vals[Wire(0, i + 1)], FromNat(16))
        /\ \A j \in 0..3 : BitOf(vals[Wire(0, i + 1)], j) = BitOf(vals[Wire(0, 0)], 4 * i + j)

\* C6: for every x below 2^32 the values SplitNibbleGenerator::run_once
\* writes lie in [0, 16), are the bits 4i..4i+3 of x, and make the gate's
\* constraint zero (they reconstruct x)
C6_NibbleHonestWitness ==
    gadget = "nibble" =>
        /\ status # "failed"
        /\ Generated =>
              /\ wit.ok
              /\ wit.vals[Wire(0, 0)] = inputs[1] /\ IsU32(inputs[1])
              /\ NibblesAreSlices(wit.vals)
              /\ eval_unfiltered(circ.gates[1], 0, wit.vals) = Zero
        /\ status = "checked" => verdict = "accepted"
C6_Witness ==
    /\ gadget = "nibble" /\ status = "checked" /\ verdict = "accepted"
    /\ inputs[1] = U32(32768, 1)
    /\ wit.vals[Wire(0, 8)] = FromNat(8) /\ wit.vals[Wire(0, 1)] = FromNat(1)

\* the parts of row 0 are the bit slices of x at the boundaries K
Canonical(vals, K) == \A c \in 1..4 : PartIsSlice(vals, K, c)
\* the gate's constraint holds on row 0
IdentityHolds == eval_unfiltered(circ.gates[1], 0, wit.vals) = Zero

\* C7: a circuit of add_u32_split, with its four range checks, rejects an
\* assignment whose x0 is not below 2^K1 although the weighted sum is x, and
\* accepts only the bit slices of x
C7_RangeChecksPinTheSplit ==
    (gadget = "split4" /\ status = "checked") =>
        /\ Len(circ.ranges) = 4
        /\ (IdentityHolds /\ ~PartInRange(wit.vals, circ.gates[1].K, 1)) => verdict = "rejected"
        /\ verdict = "accepted" => Canonical(wit.vals, circ.gates[1].K)
        /\ Canonical(wit.vals, circ.gates[1].K) => verdict = "accepted"
C7_Witness ==
    /\ gadget = "split4" /\ status = "checked" /\ verdict = "rejected"
    /\ IdentityHolds
    /\ ~PartInRange(wit.vals, circ.gates[1].K, 1)
    /\ \A c \in 2..4 : PartInRange(wit.vals, circ.gates[1].K, c)

(***************************************************************************)
(* Properties of construction and of witness generation                    *)
(***************************************************************************)
\* C8: a GenericSplit whose boundaries violate 0 < K1 < K2 < K3 < 32 fails at
\* build time: no gate row is appended and no circuit is produced for it
C8_InvalidBoundariesFailAtBuild ==
    \A r \in DOMAIN circ.gates :
        circ.gates[r].gate = "Split4Parts" => ValidK(circ.gates[r].K)

\* the generator i is a split generator of a row with valid boundaries, it
\* has run, and its input wire holds a value that is not below 2^32
RanOnWideInput(i) ==
    /\ i \in ran
    /\ circ.gens[i].kind \in {"Split4Parts", "SplitNibble"}
    /\ circ.gens[i].kind = "Split4Parts" => ValidK(circ.gens[i].K)
    /\ ~IsU32(wit.vals[circ.gens[i].ins[1]])
\* C9: when the input wire of a GenericSplit or NibbleSplit row holds a
\* canonical value x >= 2^32, witness generation fails for that row, and no
\* outputs whose recomposition differs from x are written
C9_WideInputSurfacesFailure ==
    \A i \in DOMAIN circ.gens :
        RanOnWideInput(i) =>
            /\ status = "failed"
            /\ \A c \in 1..Len(circ.gens[i].outs) : circ.gens[i].outs[c] \notin DOMAIN wit.vals

\* C10: two runs of witness generation on the same circuit and operands give
\* every target the same value, whatever order the ready generators are
\* picked in
C10_WitnessGenerationDeterministic ==
    SecondRun =>
        /\ \A t \in DOMAIN wit.vals : t \in DOMAIN ref.vals /\ wit.vals[t] = ref.vals[t]
        /\ wit.ok = ref.ok
        /\ ran = DOMAIN circ.gens => wit = ref
C10_Witness ==
    /\ SecondRun /\ skips > 0
    /\ gadget = "xor3" /\ status = "checked" /\ verdict = "accepted"
    /\ wit = ref

(***************************************************************************)
(* Properties of the gates under any prover                                *)
(***************************************************************************)
\* the rows of the U16Split gate in the circuit (numbered from 0)
U16Rows == {r \in 0..(Len(circ.gates) - 1) : circ.gates[r + 1].gate = "SplitU16"}
\* every sum even + 2 * odd of two outputs of the spread table
SpreadSums == {SpreadTable[e] + 2 * SpreadTable[o] : e \in DOMAIN SpreadTable, o \in DOMAIN SpreadTable}
\* row r of the U16Split gate holds lo = x mod 2^16 and hi = x div 2^16
U16RowCanonical(vals, r) ==
    /\ IsU16(vals[Wire(r, 1)]) /\ IsU16(vals[Wire(r, 2)])
    /\ vals[Wire(r, 1)] = And(vals[Wire(r, 0)], Mask(LimbBits))
    /\ vals[Wire(r, 2)] = Shr(vals[Wire(r, 0)], LimbBits)

\* C11: in the XOR3, MAJ3 and CH3 circuits the outputs of add_u32_split_u16
\* carry no range check, yet an assignment the circuit accepts (U16Split
\* identity, U8SpreadSplit identity, lookups of even_u8 and odd_u8) has
\* lo < 2^16, hi < 2^16, lo = x mod 2^16 and hi = x div 2^16 on the three
\* operands: a sum even + 2 * odd of table outputs is below 2^16
C11_LookupsBoundU16Split ==
    /\ \A n \in SpreadSums : n < LimbBase
    /\ (gadget \in {"xor3", "maj", "ch"} /\ status = "checked") =>
          /\ circ.ranges = <<>>
          /\ Cardinality(U16Rows) = 3
          /\ verdict = "accepted" => \A r \in U16Rows : U16RowCanonical(wit.vals, r)
          /\ (\A r \in U16Rows : U16RowCanonical(wit.vals, r)) => verdict = "accepted"
C11_Witness ==
    /\ gadget = "xor3" /\ status = "checked" /\ verdict = "rejected"
    /\ \E r \in U16Rows :
          /\ ~IsU16(wit.vals[Wire(r, 1)])
          /\ eval_unfiltered(circ.gates[r + 1], r, wit.vals) = Zero

\* the values run_once gives for row 0 from the value on its input wire
HonestParts == run_once(circ.gens[1], wit)
\* the value in column c of row 0 is not below 2^width
PartTooWide(c) == ~Less(wit.vals[Wire(0, c)], Shl(One, PartWidths(circ.gates[1])[c]))
\* the outputs of row 0 are the values h except that 2^width was added to
\* column c and 1 taken from column c + 1
Redistributed(h, c) ==
    \A k \in 1..Len(h) :
        wit.vals[Wire(0, k)] =
            IF k = c THEN FAdd(h[k], Shl(One, PartWidths(circ.gates[1])[k]))
            ELSE IF k = c + 1 THEN FSub(h[k], One)
            ELSE h[k]
\* moving 2^width from column c to the next leaves the constraint zero and
\* column c outside its width
RedistributionPasses(h, c) ==
    Redistributed(h, c) =>
        /\ IsU32(wit.vals[Wire(0, 0)])
        /\ IdentityHolds
        /\ PartTooWide(c)
        /\ wit.vals[Wire(0, c)] # h[c]
        /\ (gadget = "nibble" /\ status = "checked") => verdict = "accepted"

\* C12: the constraint of GenericSplit and of NibbleSplit does not bound the
\* widths of the parts: for x below 2^32, moving 2^width from one part to the
\* next gives an assignment that is not the decomposition of x, has a part
\* outside its width, and still makes eval_unfiltered zero; the nibble row,
\* which has no range check, accepts it
C12_IdentityDoesNotBoundWidths ==
    (gadget \in {"split4", "nibble"} /\ status \in {"proving", "checked"}) =>
        Let(HonestParts, LAMBDA h : \A c \in 1..(Len(h) - 1) : RedistributionPasses(h, c))
C12_Witness ==
    /\ gadget = "nibble" /\ status = "checked" /\ verdict = "accepted"
    /\ IsU32(wit.vals[Wire(0, 0)])
    /\ IdentityHolds
    /\ Redistributed(HonestParts, 1)
    /\ PartTooWide(1)

(***************************************************************************)
(* Properties of the runs of the generators                                *)
(***************************************************************************)
\* the output wires of a split generator: columns 1..n of its row
OutputWires(g) == {Wire(g.row, c) : c \in 1..(num_wires(g.kind) - 1)}
IsSplit(g) == g.kind \in {"Split4Parts", "SplitNibble"}
\* the output targets of generator i
OutputsOf(i) == {circ.gens[i].outs[c] : c \in DOMAIN circ.gens[i].outs}
\* generator i has no output target in common with another generator
OutputsDisjoint(i) ==
    \A j \in DOMAIN circ.gens : i # j => OutputsOf(i) \cap OutputsOf(j) = {}
\* the step is a run of generator i: what it writes
WritesOnce(i) ==
    /\ \A t \in DOMAIN wit.vals : t \in DOMAIN wit'.vals /\ wit'.vals[t] = wit.vals[t]
    /\ OutputsDisjoint(i)
    /\ IsSplit(circ.gens[i]) =>
          /\ wit'.ok
          /\ \A c \in DOMAIN circ.gens[i].outs : circ.gens[i].outs[c] \notin DOMAIN wit.vals
          /\ Len(circ.gens[i].outs) = (IF circ.gens[i].kind = "SplitNibble" THEN 8 ELSE 4)
          /\ DOMAIN wit'.vals \ DOMAIN wit.vals = OutputWires(circ.gens[i])
          /\ Wire(circ.gens[i].row, 0) \in DOMAIN wit.vals
\* a step in which one more generator has run
GeneratorStep == status = "proving" /\ ran' # ran /\ ran \subseteq ran'

\* C13: each gate output wire is set by at most one generator run: a split
\* generator at row r writes columns 1..n of row r (n = 4 for GenericSplit,
\* 8 for NibbleSplit) and nothing else, not column 0 and no wire of another
\* row, and no run changes a value already written
C13_WriteOnce ==
    [][GeneratorStep => \A i \in ran' \ ran : WritesOnce(i)]_vars
C13_Witness ==
    /\ gadget = "split" /\ Len(circ.gates) = 2 /\ ran = {1, 2} /\ wit.ok
    /\ circ.gates[1].gate = "Split4Parts" /\ circ.gates[2].gate = "SplitNibble"
    /\ \A c \in 1..4 : Wire(0, c) \in DOMAIN wit.vals
    /\ \A c \in 1..8 : Wire(1, c) \in DOMAIN wit.vals

(***************************************************************************)
(* Order and completion of witness generation                              *)
(***************************************************************************)
\* the targets that hold a value before generator i can run: the operands
\* and the outputs of the generators registered before it
FilledBefore(b, i) ==
    {Operands3.out[j] : j \in 1..3}
        \cup UNION {{b.gens[j].outs[c] : c \in DOMAIN b.gens[j].outs} : j \in 1..(i - 1)}
\* every input of every generator is an operand or an output of an earlier
\* generator, or copy-connected to one
WiredToEarlier(b) ==
    \A i \in DOMAIN b.gens :
        \A j \in 1..Len(dependencies(b.gens[i])) :
            Partition(b.copies, {dependencies(b.gens[i])[j]}) \cap FilledBefore(b, i) # {}
\* the input wire of every gate row is connected only to targets of earlier rows
\* or to virtual targets
RowsReadEarlier(b) ==
    \A r \in 0..(Len(b.gates) - 1) :
        \A t \in Partition(b.copies, {Wire(r, 0)}) : t.k = "w" => t.r <= r
\* generator i runs in this step: it had not run, and its dependencies (for
\* a gate generator: column 0 of its row) hold a value
RunsWhenReady(i) ==
    /\ i \notin ran
    /\ ran' = ran \cup {i}
    /\ \A j \in 1..Len(dependencies(circ.gens[i])) :
          dependencies(circ.gens[i])[j] \in DOMAIN wit.vals
    /\ circ.gens[i].kind \in {"SplitU16", "SplitU8Spread"} =>
          /\ dependencies(circ.gens[i]) = <<Wire(circ.gens[i].row, 0)>>
          /\ Wire(circ.gens[i].row, 0) \in DOMAIN wit.vals
OperandsAssigned ==
    /\ gadget \in {"xor3", "maj", "ch"} /\ status = "proving"
    /\ \A j \in 1..3 : Operands3.out[j] \in DOMAIN wit.vals
AllRan == status = "proving" /\ ran = DOMAIN circ.gens /\ result \in DOMAIN wit.vals

\* C14: in the XOR3, MAJ3 and CH3 circuits a generator runs only when its input
\* wire holds a value and it has not run, every generator reads only what
\* earlier generators or the operands fill (no cycle), and once the operands
\* are assigned every generator eventually has run and the result is filled
C14_DependencyOrderAndCompletion ==
    /\ [][GeneratorStep => \E i \in DOMAIN circ.gens : RunsWhenReady(i)]_vars
    /\ [](status = "built" => (WiredToEarlier(circ) /\ RowsReadEarlier(circ)))
    /\ (OperandsAssigned ~> AllRan)
C14_Witness ==
    /\ gadget = "ch" /\ AllRan /\ skips > 0 /\ wit.ok
    /\ Cardinality(ran) > 3
====
